---- MODULE Spec2Model ----
(***************************************************************************)
(* Geek Match (src/app.py): title normalisation and matching, preference   *)
(* dictionaries, pairwise scoring with the capped rank synergy, and the    *)
(* ranking of dataset persons against a query.                             *)
(*                                                                         *)
(* A title is a sequence of one-character strings, a token likewise.  A    *)
(* Python dict is a sequence of entries with pairwise distinct keys, in    *)
(* insertion order.                                                        *)
(***************************************************************************)
EXTENDS Integers, Sequences, FiniteSets, TLC

VARIABLES
    raw_data,          \* load_data's result: <<[person, games_ranks], ...>>
    transformed_data,  \* transform_data's result: <<[person, prefs], ...>>
    new_user_list,     \* find_top_matches: the argument
    new_user_dict,     \* find_top_matches: the query's preference dict
    results,           \* find_top_matches: the result list
    person_i,          \* find_top_matches: index of the person being compared
    ui,                \* compare_users: index of user_game in user_dict
    oi,                \* compare_users: index of other_game in other_dict
    score,             \* compare_users: running score
    overlap_count,     \* compare_users: running number of matched pairs
    overlap_details,   \* compare_users: overlap records so far
    top_n,             \* find_top_matches: the argument
    ret,               \* find_top_matches: the returned list
    pc,                \* position in the ranking run
    title_a,           \* token_based_match: first argument
    title_b,           \* token_based_match: second argument
    tokens_a,          \* token_based_match: tokens of title_a
    tokens_b,          \* token_based_match: tokens of title_b
    match_result,      \* token_based_match: returned value
    mpc                \* position in the token_based_match call

rankVars == <<raw_data, transformed_data, new_user_list, new_user_dict, results,
              person_i, ui, oi, score, overlap_count, overlap_details, top_n, ret, pc>>
matchVars == <<title_a, title_b, tokens_a, tokens_b, match_result, mpc>>
vars == <<rankVars, matchVars>>

(***************************************************************************)
(* Bounds                                                                  *)
(***************************************************************************)
MaxWords == 2      \* words per generated title
MaxSlots == 3      \* entries of a query list
MaxTopN == 3       \* |top_n| ranges up to this

(***************************************************************************)
(* Characters                                                              *)
(***************************************************************************)
UpperCase == << "A", "B", "C", "D", "E", "F", "G", "H", "I", "J", "K", "L", "M",
                "N", "O", "P", "Q", "R", "S", "T", "U", "V", "W", "X", "Y", "Z" >>
LowerCase == << "a", "b", "c", "d", "e", "f", "g", "h", "i", "j", "k", "l", "m",
                "n", "o", "p", "q", "r", "s", "t", "u", "v", "w", "x", "y", "z" >>
Digits == {"0", "1", "2", "3", "4", "5", "6", "7", "8", "9"}
Range(s) == {s[i] : i \in 1..Len(s)}
\* the characters the pattern \w accepts
WordChars == Range(UpperCase) \cup Range(LowerCase) \cup Digits \cup {"_"}
\* the characters the pattern \s accepts and str.split() splits on
SpaceChars == {" ", "\t", "\n"}

\* str.lower() on one character
lower_char(c) ==
    IF \E i \in 1..Len(UpperCase) : UpperCase[i] = c
    THEN LowerCase[CHOOSE i \in 1..Len(UpperCase) : UpperCase[i] = c]
    ELSE c

\* s = title.lower()
lower(title) == [i \in 1..Len(title) |-> lower_char(title[i])]

\* re.sub(r"[^\w\s]", "", s)
remove_punctuation(s) == SelectSeq(s, LAMBDA c : c \in WordChars \cup SpaceChars)

\* s.split(): maximal runs of non-whitespace characters, in order
RECURSIVE split_from(_, _, _, _)
split_from(s, i, cur, out) ==
    IF i > Len(s)
    THEN IF cur = <<>> THEN out ELSE Append(out, cur)
    ELSE IF s[i] \in SpaceChars
         THEN split_from(s, i + 1, <<>>, IF cur = <<>> THEN out ELSE Append(out, cur))
         ELSE split_from(s, i + 1, Append(cur, s[i]), out)

split(s) == split_from(s, 1, <<>>, <<>>)

STOPWORDS == { <<"o", "f">>, <<"t", "h", "e">>, <<"a", "n", "d">> }

NUMBER_MAP ==
    { << <<"0">>, <<"z", "e", "r", "o">> >>, << <<"z", "e", "r", "o">>, <<"z", "e", "r", "o">> >>,
      << <<"1">>, <<"o", "n", "e">> >>, << <<"o", "n", "e">>, <<"o", "n", "e">> >>,
      << <<"2">>, <<"t", "w", "o">> >>, << <<"t", "w", "o">>, <<"t", "w", "o">> >>,
      << <<"3">>, <<"t", "h", "r", "e", "e">> >>, << <<"t", "h", "r", "e", "e">>, <<"t", "h", "r", "e", "e">> >>,
      << <<"4">>, <<"f", "o", "u", "r">> >>, << <<"f", "o", "u", "r">>, <<"f", "o", "u", "r">> >>,
      << <<"5">>, <<"f", "i", "v", "e">> >>, << <<"f", "i", "v", "e">>, <<"f", "i", "v", "e">> >>,
      << <<"6">>, <<"s", "i", "x">> >>, << <<"s", "i", "x">>, <<"s", "i", "x">> >>,
      << <<"7">>, <<"s", "e", "v", "e", "n">> >>, << <<"s", "e", "v", "e", "n">>, <<"s", "e", "v", "e", "n">> >>,
      << <<"8">>, <<"e", "i", "g", "h", "t">> >>, << <<"e", "i", "g", "h", "t">>, <<"e", "i", "g", "h", "t">> >>,
      << <<"9">>, <<"n", "i", "n", "e">> >>, << <<"n", "i", "n", "e">>, <<"n", "i", "n", "e">> >>,
      << <<"1", "0">>, <<"t", "e", "n">> >>, << <<"t", "e", "n">>, <<"t", "e", "n">> >>,
      << <<"1", "1">>, <<"e", "l", "e", "v", "e", "n">> >>, << <<"e", "l", "e", "v", "e", "n">>, <<"e", "l", "e", "v", "e", "n">> >>,
      << <<"1", "2">>, <<"t", "w", "e", "l", "v", "e">> >>, << <<"t", "w", "e", "l", "v", "e">>, <<"t", "w", "e", "l", "v", "e">> >>,
      << <<"1", "3">>, <<"t", "h", "i", "r", "t", "e", "e", "n">> >>, << <<"t", "h", "i", "r", "t", "e", "e", "n">>, <<"t", "h", "i", "r", "t", "e", "e", "n">> >>,
      << <<"1", "4">>, <<"f", "o", "u", "r", "t", "e", "e", "n">> >>, << <<"f", "o", "u", "r", "t", "e", "e", "n">>, <<"f", "o", "u", "r", "t", "e", "e", "n">> >>,
      << <<"1", "5">>, <<"f", "i", "f", "t", "e", "e", "n">> >>, << <<"f", "i", "f", "t", "e", "e", "n">>, <<"f", "i", "f", "t", "e", "e", "n">> >>,
      << <<"1", "6">>, <<"s", "i", "x", "t", "e", "e", "n">> >>, << <<"s", "i", "x", "t", "e", "e", "n">>, <<"s", "i", "x", "t", "e", "e", "n">> >>,
      << <<"1", "7">>, <<"s", "e", "v", "e", "n", "t", "e", "e", "n">> >>, << <<"s", "e", "v", "e", "n", "t", "e", "e", "n">>, <<"s", "e", "v", "e", "n", "t", "e", "e", "n">> >>,
      << <<"1", "8">>, <<"e", "i", "g", "h", "t", "e", "e", "n">> >>, << <<"e", "i", "g", "h", "t", "e", "e", "n">>, <<"e", "i", "g", "h", "t", "e", "e", "n">> >>,
      << <<"1", "9">>, <<"n", "i", "n", "e", "t", "e", "e", "n">> >>, << <<"n", "i", "n", "e", "t", "e", "e", "n">>, <<"n", "i", "n", "e", "t", "e", "e", "n">> >>,
      << <<"2", "0">>, <<"t", "w", "e", "n", "t", "y">> >>, << <<"t", "w", "e", "n", "t", "y">>, <<"t", "w", "e", "n", "t", "y">> >> }

\* NUMBER_MAP[t] for a key t of the table
number_of(t) == (CHOOSE p \in NUMBER_MAP : p[1] = t)[2]

\* the loop over tokens: stopwords are skipped, numerals are canonicalised
final_tokens(tokens) ==
    LET kept == SelectSeq(tokens, LAMBDA t : t \notin STOPWORDS)
    IN  [i \in 1..Len(kept) |->
            IF \E p \in NUMBER_MAP : p[1] = kept[i] THEN number_of(kept[i]) ELSE kept[i]]

normalize_and_tokenize(title) == final_tokens(split(remove_punctuation(lower(title))))

(***************************************************************************)
(* token_based_match                                                       *)
(***************************************************************************)
\* all(t in tokens_y for t in tokens_x)
all_in_positional(tokens_x, tokens_y) ==
    \A i \in 1..Len(tokens_x) : i <= Len(tokens_y) /\ tokens_y[i] = tokens_x[i]

all_in(tokens_x, tokens_y) ==
    \A i \in 1..Len(tokens_x) : \E j \in 1..Len(tokens_y) : tokens_y[j] = tokens_x[i]

\* len(tokens_a) == 1 and len(tokens_b) == 1
single_token_case(ta, tb) == Len(ta) = 1 /\ Len(tb) = 1

\* subset_ab or subset_ba
subset_match_one_way(ta, tb) == all_in(ta, tb)

subset_match(ta, tb) == all_in(ta, tb) \/ all_in(tb, ta)

match_tokens(ta, tb) ==
    IF single_token_case(ta, tb) THEN ta[1] = tb[1] ELSE subset_match(ta, tb)

token_based_match(a, b) == match_tokens(normalize_and_tokenize(a), normalize_and_tokenize(b))

(***************************************************************************)
(* Titles given to token_based_match                                       *)
(***************************************************************************)
Arks == <<"A", "r", "k", "s">>
ARKS == <<"A", "R", "K", "S">>
arks == <<"a", "r", "k", "s">>
Parks == <<"P", "a", "r", "k", "s">>
The == <<"t", "h", "e">>
Seven == <<"S", "e", "v", "e", "n">>
Digit7 == <<"7">>
SETI == <<"S", "E", "T", "I">>
SETILong == <<"S", "E", "T", "I", " ", "S", "e", "a", "r", "c", "h", " ", "f", "o", "r", " ",
              "E", "x", "t", "r", "a", "t", "e", "r", "r", "e", "s", "t", "r", "i", "a", "l", " ",
              "I", "n", "t", "e", "l", "l", "i", "g", "e", "n", "c", "e">>
WarOfTheRing == <<"W", "a", "r", " ", "o", "f", " ", "t", "h", "e", " ", "R", "i", "n", "g">>
DeepSea == <<"D", "e", "e", "p", "-", "S", "e", "a">>
Bangs == <<"!", "!", "!">>

Words == {Arks, ARKS, Parks, The, Seven, Digit7}

\* the words of ws joined by single spaces
RECURSIVE join(_)
join(ws) ==
    IF ws = <<>> THEN <<>>
    ELSE IF Len(ws) = 1 THEN ws[1]
    ELSE ws[1] \o <<" ">> \o join(Tail(ws))

ExampleTitles == {arks, SETI, SETILong, WarOfTheRing, DeepSea, Bangs}

Titles == {join(ws) : ws \in UNION {[1..k -> Words] : k \in 0..MaxWords}} \cup ExampleTitles

(***************************************************************************)
(* One call of token_based_match, step by step                             *)
(***************************************************************************)
MatchInit ==
    /\ title_a \in Titles
    /\ title_b \in Titles
    /\ tokens_a = <<>>
    /\ tokens_b = <<>>
    /\ match_result = "none"
    /\ mpc = "tokenize"
    /\ raw_data = <<>>
    /\ transformed_data = <<>>
    /\ new_user_list = <<>>
    /\ new_user_dict = <<>>
    /\ results = <<>>
    /\ person_i = 0
    /\ ui = 0
    /\ oi = 0
    /\ score = 0
    /\ overlap_count = 0
    /\ overlap_details = <<>>
    /\ top_n = 0
    /\ ret = <<>>
    /\ pc = "off"

Tokenize ==
    /\ mpc = "tokenize"
    /\ tokens_a' = normalize_and_tokenize(title_a)
    /\ tokens_b' = normalize_and_tokenize(title_b)
    /\ mpc' = "decide"
    /\ UNCHANGED <<title_a, title_b, match_result, rankVars>>

SingleTokenMatch ==
    /\ mpc = "decide"
    /\ single_token_case(tokens_a, tokens_b)
    /\ match_result' = (tokens_a[1] = tokens_b[1])
    /\ mpc' = "done"
    /\ UNCHANGED <<title_a, title_b, tokens_a, tokens_b, rankVars>>

SubsetMatch ==
    /\ mpc = "decide"
    /\ ~single_token_case(tokens_a, tokens_b)
    /\ match_result' = subset_match(tokens_a, tokens_b)
    /\ mpc' = "done"
    /\ UNCHANGED <<title_a, title_b, tokens_a, tokens_b, rankVars>>

MatchNext == Tokenize \/ SingleTokenMatch \/ SubsetMatch

MatchSpec == MatchInit /\ [][MatchNext]_vars


(***************************************************************************)
(* Preference dicts                                                        *)
(***************************************************************************)
SYNERGY_BASE == 20

Front(s) == SubSeq(s, 1, Len(s) - 1)
Last(s) == s[Len(s)]
abs(x) == IF x < 0 THEN 0 - x ELSE x
max(a, b) == IF a >= b THEN a ELSE b

\* {"rank": rank, "weight": 11 - rank}, stored under the key game
entry(game, rank) == [game |-> game, rank |-> rank, weight |-> 11 - rank]

has_key(d, game) == \E i \in 1..Len(d) : d[i].game = game

\* d[game] = info: a new key is appended, an existing key keeps its position
\* and takes the new value
dict_set_first_wins(d, e) == IF has_key(d, e.game) THEN d ELSE Append(d, e)

dict_set(d, e) ==
    IF has_key(d, e.game)
    THEN [i \in 1..Len(d) |-> IF d[i].game = e.game THEN e ELSE d[i]]
    ELSE Append(d, e)

\* the loop "for (game, rank) in ...: d[game] = {...}" starting from {}
RECURSIVE build_dict(_)
build_dict(games_ranks) ==
    IF games_ranks = <<>> THEN <<>>
    ELSE LET gr == Last(games_ranks)
         IN  dict_set(build_dict(Front(games_ranks)), entry(gr[1], gr[2]))

transform_data(data) ==
    [p \in 1..Len(data) |->
        [person |-> data[p].person, prefs |-> build_dict(data[p].games_ranks)]]

(***************************************************************************)
(* compare_users                                                           *)
(***************************************************************************)
overlap_record(u, o) ==
    [game_user |-> u.game, game_other |-> o.game, your_rank |-> u.rank, their_rank |-> o.rank]

\* the body of "if token_based_match(user_game, other_game):"
match_step_cap_lt(acc, u, o) ==
    LET difference == abs(u.rank - o.rank)
        synergy == max(0, SYNERGY_BASE - difference)
        dot == acc.score + u.weight * o.weight
        count == acc.overlap_count + 1
    IN  [score |-> IF count < 10 THEN dot + synergy * count ELSE dot,
         overlap_count |-> count,
         overlap_details |-> Append(acc.overlap_details, overlap_record(u, o))]

match_step_capped_details(acc, u, o) ==
    LET difference == abs(u.rank - o.rank)
        synergy == max(0, SYNERGY_BASE - difference)
        dot == acc.score + u.weight * o.weight
        count == acc.overlap_count + 1
    IN  IF count <= 10
        THEN [score |-> dot + synergy * count,
              overlap_count |-> count,
              overlap_details |-> Append(acc.overlap_details, overlap_record(u, o))]
        ELSE [score |-> dot,
              overlap_count |-> count,
              overlap_details |-> acc.overlap_details]

match_step(acc, u, o) ==
    LET difference == abs(u.rank - o.rank)
        synergy == max(0, SYNERGY_BASE - difference)
        dot == acc.score + u.weight * o.weight
        count == acc.overlap_count + 1
    IN  [score |-> IF count <= 10 THEN dot + synergy * count ELSE dot,
         overlap_count |-> count,
         overlap_details |-> Append(acc.overlap_details, overlap_record(u, o))]

\* one iteration of the inner loop
pair_step_dot_first(acc, u, o) ==
    IF token_based_match(u.game, o.game)
    THEN match_step(acc, u, o)
    ELSE [acc EXCEPT !.score = @ + u.weight * o.weight]

pair_step(acc, u, o) ==
    IF token_based_match(u.game, o.game) THEN match_step(acc, u, o) ELSE acc

(***************************************************************************)
(* find_top_matches: sort and truncation                                   *)
(***************************************************************************)
\* x goes behind every element whose score is at least x.score
insert_desc_ties_first(sorted, x) ==
    LET k == Cardinality({i \in 1..Len(sorted) : sorted[i].score > x.score})
    IN  SubSeq(sorted, 1, k) \o <<x>> \o SubSeq(sorted, k + 1, Len(sorted))

insert_desc(sorted, x) ==
    LET k == Cardinality({i \in 1..Len(sorted) : sorted[i].score >= x.score})
    IN  SubSeq(sorted, 1, k) \o <<x>> \o SubSeq(sorted, k + 1, Len(sorted))

\* results.sort(key=lambda x: x["score"], reverse=True): stable, descending
RECURSIVE sort_desc(_)
sort_desc(rs) ==
    IF rs = <<>> THEN <<>> ELSE insert_desc(sort_desc(Front(rs)), Last(rs))

\* results[:n]
slice_to_off_by_one(rs, n) ==
    IF n >= 0
    THEN SubSeq(rs, 1, IF n + 1 < Len(rs) THEN n + 1 ELSE Len(rs))
    ELSE SubSeq(rs, 1, max(0, Len(rs) + n))

slice_to(rs, n) ==
    IF n >= 0
    THEN SubSeq(rs, 1, IF n < Len(rs) THEN n ELSE Len(rs))
    ELSE SubSeq(rs, 1, max(0, Len(rs) + n))

(***************************************************************************)
(* Inputs                                                                  *)
(***************************************************************************)
Wingspan == <<"W", "i", "n", "g", "s", "p", "a", "n">>
wingspan == <<"w", "i", "n", "g", "s", "p", "a", "n">>
WINGSPAN == <<"W", "I", "N", "G", "S", "P", "A", "N">>
WingspanBang == <<"W", "i", "n", "g", "s", "p", "a", "n", "!">>
WingDashSpan == <<"W", "i", "n", "g", "-", "s", "p", "a", "n">>
TheWingspan == <<"T", "h", "e", " ", "W", "i", "n", "g", "s", "p", "a", "n">>
WingspanAsia == <<"W", "i", "n", "g", "s", "p", "a", "n", " ", "A", "s", "i", "a">>
Gloomhaven == <<"G", "l", "o", "o", "m", "h", "a", "v", "e", "n">>
Bang == <<"!">>
Blank == <<>>

row(person, games_ranks) == [person |-> person, games_ranks |-> games_ranks]

\* the end-to-end scenario: two persons who tie on the query <<Wingspan, 1>>
AliceBob ==
    << row("Alice", << <<Wingspan, 1>>, <<Gloomhaven, 2>> >>),
       row("Bob", << <<wingspan, 1>> >>) >>

\* one person with six spellings of one title, one with a far rank
ManySpellings ==
    << row("Carol", << <<Wingspan, 1>>, <<wingspan, 2>>, <<WINGSPAN, 3>>,
                       <<WingspanBang, 4>>, <<WingDashSpan, 5>>, <<TheWingspan, 6>> >>),
       row("Dave", << <<Gloomhaven, 25>>, <<WingspanAsia, 2>> >>) >>

\* five persons, with ties and a repeated label
FivePersons ==
    << row("Erin", << <<Gloomhaven, 3>> >>),
       row("Frank", << <<Wingspan, 2>> >>),
       row("Grace", << <<wingspan, 1>>, <<Gloomhaven, 1>> >>),
       row("Heidi", << <<Wingspan, 2>> >>),
       row("Ivan", << <<Wingspan, 1>>, <<Gloomhaven, 2>>, <<Wingspan, 3>> >>) >>

\* a file with a header line only
NoPersons == <<>>

Datasets == {AliceBob, ManySpellings, FivePersons, NoPersons}

QueryTitles == {Wingspan, wingspan, Gloomhaven, Bang}

\* the form: slot i holds a title or is blank; blank slots are skipped and
\* the rank of an entry is its slot number
RECURSIVE user_games_input(_, _)
user_games_input(slots, n) ==
    IF n = 0 THEN <<>>
    ELSE IF \E c \in Range(slots[n]) : c \notin SpaceChars
         THEN Append(user_games_input(slots, n - 1), <<slots[n], n>>)
         ELSE user_games_input(slots, n - 1)

Queries == {user_games_input(slots, MaxSlots) : slots \in [1..MaxSlots -> QueryTitles \cup {Blank}]}

TopNs == (0 - MaxTopN)..MaxTopN

(***************************************************************************)
(* The ranking run                                                         *)
(***************************************************************************)
Init ==
    /\ raw_data \in Datasets
    /\ transformed_data = <<>>
    /\ new_user_list = <<>>
    /\ new_user_dict = <<>>
    /\ results = <<>>
    /\ person_i = 0
    /\ ui = 0
    /\ oi = 0
    /\ score = 0
    /\ overlap_count = 0
    /\ overlap_details = <<>>
    /\ top_n = 0
    /\ ret = <<>>
    /\ pc = "loaded"
    /\ title_a = <<>>
    /\ title_b = <<>>
    /\ tokens_a = <<>>
    /\ tokens_b = <<>>
    /\ match_result = "none"
    /\ mpc = "off"

\* transformed_data = transform_data(raw_data)
TransformData ==
    /\ pc = "loaded"
    /\ transformed_data' = transform_data(raw_data)
    /\ pc' = "ready"
    /\ UNCHANGED <<raw_data, new_user_list, new_user_dict, results, person_i, ui, oi,
                   score, overlap_count, overlap_details, top_n, ret, matchVars>>

\* find_top_matches(q, transformed_data, top_n): the query dict is built
BuildUserDict(q) ==
    /\ pc = "ready"
    /\ new_user_list' = q
    /\ new_user_dict' = build_dict(q)
    /\ results' = <<>>
    /\ person_i' = 1
    /\ pc' = "persons"
    /\ UNCHANGED <<raw_data, transformed_data, ui, oi, score, overlap_count,
                   overlap_details, top_n, ret, matchVars>>

\* compare_users(new_user_dict, person_dict) is entered for the next person
CompareEnter ==
    /\ pc = "persons"
    /\ person_i <= Len(transformed_data)
    /\ overlap_details' = <<>>
    /\ score' = 0
    /\ overlap_count' = 0
    /\ ui' = 1
    /\ oi' = 1
    /\ pc' = "compare"
    /\ UNCHANGED <<raw_data, transformed_data, new_user_list, new_user_dict, results,
                   person_i, top_n, ret, matchVars>>

other_dict == transformed_data[person_i].prefs

\* one iteration of "for other_game, other_info in other_dict.items()"
ComparePair ==
    /\ pc = "compare"
    /\ ui <= Len(new_user_dict)
    /\ oi <= Len(other_dict)
    /\ LET acc == pair_step([score |-> score, overlap_count |-> overlap_count,
                             overlap_details |-> overlap_details],
                            new_user_dict[ui], other_dict[oi])
       IN  /\ score' = acc.score
           /\ overlap_count' = acc.overlap_count
           /\ overlap_details' = acc.overlap_details
    /\ oi' = oi + 1
    /\ UNCHANGED <<raw_data, transformed_data, new_user_list, new_user_dict, results,
                   person_i, ui, top_n, ret, pc, matchVars>>

\* the inner loop is exhausted: the outer loop takes the next user_game
NextUserGame ==
    /\ pc = "compare"
    /\ ui <= Len(new_user_dict)
    /\ oi > Len(other_dict)
    /\ ui' = ui + 1
    /\ oi' = 1
    /\ UNCHANGED <<raw_data, transformed_data, new_user_list, new_user_dict, results,
                   person_i, score, overlap_count, overlap_details, top_n, ret, pc, matchVars>>

\* compare_users returns; its result is appended to results
CompareReturn ==
    /\ pc = "compare"
    /\ ui > Len(new_user_dict)
    /\ results' = Append(results, [person |-> transformed_data[person_i].person,
                                   score |-> score,
                                   overlap |-> overlap_details])
    /\ person_i' = person_i + 1
    /\ pc' = "persons"
    /\ UNCHANGED <<raw_data, transformed_data, new_user_list, new_user_dict, ui, oi,
                   score, overlap_count, overlap_details, top_n, ret, matchVars>>

\* results.sort(...); return results[:top_n].  The argument top_n is read
\* here for the first time, so its value n is drawn here.
SortAndReturn(n) ==
    /\ pc = "persons"
    /\ person_i > Len(transformed_data)
    /\ top_n' = n
    /\ results' = sort_desc(results)
    /\ ret' = slice_to(sort_desc(results), n)
    /\ pc' = "done"
    /\ UNCHANGED <<raw_data, transformed_data, new_user_list, new_user_dict, person_i,
                   ui, oi, score, overlap_count, overlap_details, matchVars>>

Next ==
    \/ TransformData
    \/ \E q \in Queries : BuildUserDict(q)
    \/ CompareEnter
    \/ ComparePair
    \/ NextUserGame
    \/ CompareReturn
    \/ \E n \in TopNs : SortAndReturn(n)

Spec == Init /\ [][Next]_vars


(***************************************************************************)
(* Helpers of the properties                                               *)
(***************************************************************************)
\* the index pairs of the cartesian product, user index major
product_pairs(user, other) ==
    [k \in 1..(Len(user) * Len(other)) |->
        <<((k - 1) \div Len(other)) + 1, ((k - 1) % Len(other)) + 1>>]

\* the matched pairs, numbered 1, 2, 3, ... in traversal order
matched_pairs(user, other) ==
    SelectSeq(product_pairs(user, other),
              LAMBDA p : token_based_match(user[p[1]].game, other[p[2]].game))

RECURSIVE weight_products(_, _, _, _)
weight_products(user, other, mp, k) ==
    IF k = 0 THEN 0
    ELSE user[mp[k][1]].weight * other[mp[k][2]].weight
         + weight_products(user, other, mp, k - 1)

rank_synergy(user_rank, other_rank) ==
    LET d == IF user_rank >= other_rank THEN user_rank - other_rank ELSE other_rank - user_rank
    IN  IF d >= 20 THEN 0 ELSE 20 - d

RECURSIVE synergies(_, _, _, _)
synergies(user, other, mp, k) ==
    IF k = 0 THEN 0
    ELSE rank_synergy(user[mp[k][1]].rank, other[mp[k][2]].rank) * k
         + synergies(user, other, mp, k - 1)

closed_score(user, other) ==
    LET mp == matched_pairs(user, other)
    IN  weight_products(user, other, mp, Len(mp))
        + synergies(user, other, mp, IF Len(mp) <= 10 THEN Len(mp) ELSE 10)

\* position of a person in the dataset's iteration order
person_pos(name) == CHOOSE p \in 1..Len(transformed_data) : transformed_data[p].person = name

prefs_of(name) == transformed_data[person_pos(name)].prefs

finished == pc \in {"persons", "done"}

(***************************************************************************)
(* Properties of the ranking run (Spec)                                    *)
(***************************************************************************)
\* C1: the score of every compared person is the sum over the matched pairs,
\* numbered k = 1, 2, ... in traversal order (user_set major, other_set
\* minor, both in insertion order), of user_weight * other_weight, plus the
\* sum over the pairs with k <= 10 of max(0, 20 - |rank difference|) * k.
ScoreIsClosedForm ==
    finished =>
        \A r \in 1..Len(results) :
            results[r].score = closed_score(new_user_dict, prefs_of(results[r].person))

\* a person with twelve or more matched pairs whose eleventh pair has a
\* positive synergy that the score leaves out
WitnessSynergyCapped ==
    /\ pc = "done"
    /\ \E r \in 1..Len(results) :
        /\ Len(results[r].overlap) >= 12
        /\ rank_synergy(results[r].overlap[11].your_rank,
                        results[r].overlap[11].their_rank) > 0

\* C2: one result per dataset person; the sorted list is ordered by score
\* descending and persons with equal scores keep the dataset's order; the
\* scenario Alice/Bob with query <<Wingspan, 1>> gives Alice 120, Bob 120.
SortedStableByScore ==
    pc = "done" =>
        /\ Len(results) = Len(raw_data)
        /\ \A p \in 1..Len(raw_data) :
              Cardinality({r \in 1..Len(results) : results[r].person = raw_data[p].person}) = 1
        /\ \A i, j \in 1..Len(results) :
              i < j =>
                /\ results[i].score >= results[j].score
                /\ results[i].score = results[j].score
                      => person_pos(results[i].person) < person_pos(results[j].person)
        /\ \A i, j \in 1..Len(ret) :
              i < j =>
                /\ ret[i].score >= ret[j].score
                /\ ret[i].score = ret[j].score
                      => person_pos(ret[i].person) < person_pos(ret[j].person)
        /\ (raw_data = AliceBob /\ new_user_list = << <<Wingspan, 1>> >>)
              => /\ results[1].person = "Alice" /\ results[1].score = 120
                 /\ results[2].person = "Bob" /\ results[2].score = 120

\* a run whose sort moved a person forward and left a tie with a positive score
WitnessTieAndReorder ==
    /\ pc = "done"
    /\ \E i, j \in 1..Len(results) :
          /\ i < j
          /\ results[i].score = results[j].score
          /\ results[i].score > 0
    /\ \E i, j \in 1..Len(results) :
          /\ i < j
          /\ person_pos(results[i].person) > person_pos(results[j].person)

\* C3 as stated: for every integer top_n the returned list has length at
\* most top_n and is the first top_n entries of the sorted list.
TruncatedForEveryTopN ==
    pc = "done" =>
        /\ Len(ret) <= top_n
        /\ Len(ret) = (IF Len(results) < top_n THEN Len(results) ELSE top_n)
        /\ \A i \in 1..Len(ret) : ret[i] = results[i]

\* C3 amended: for every top_n >= 0 the returned list has length at most
\* top_n and is the first top_n entries of the sorted list (all of them when
\* there are fewer than top_n persons); top_n = 1 on five persons returns
\* exactly the highest-scoring result.
TruncatedForNonNegativeTopN ==
    (pc = "done" /\ top_n >= 0) =>
        /\ Len(ret) <= top_n
        /\ Len(ret) = (IF Len(results) < top_n THEN Len(results) ELSE top_n)
        /\ \A i \in 1..Len(ret) : ret[i] = results[i]
        /\ (top_n = 1 /\ Len(raw_data) = 5)
              => /\ Len(ret) = 1
                 /\ \A r \in 1..Len(results) : ret[1].score >= results[r].score

\* top_n = 1 on the five-person dataset, with scores that differ
WitnessTopOneOfFive ==
    /\ pc = "done"
    /\ top_n = 1
    /\ Len(raw_data) = 5
    /\ Len(ret) = 1
    /\ \E r \in 1..Len(results) : results[r].score < ret[1].score

\* C8: during the traversal the overlap sequence is as long as
\* overlap_count; at the end it holds one record per matched pair of the
\* cartesian product, in traversal order, with both raw labels and both
\* ranks, also beyond the tenth pair.
OverlapRecordsEveryMatch ==
    /\ pc = "compare" => Len(overlap_details) = overlap_count
    /\ finished =>
          \A r \in 1..Len(results) :
              LET user == new_user_dict
                  other == prefs_of(results[r].person)
                  mp == matched_pairs(user, other)
              IN  /\ Len(results[r].overlap) = Len(mp)
                  /\ \A k \in 1..Len(mp) :
                        results[r].overlap[k] =
                            [game_user |-> user[mp[k][1]].game,
                             game_other |-> other[mp[k][2]].game,
                             your_rank |-> user[mp[k][1]].rank,
                             their_rank |-> other[mp[k][2]].rank]

\* a traversal that is past its tenth matched pair
WitnessMoreThanTenOverlaps ==
    /\ pc = "compare"
    /\ overlap_count > 10
    /\ Len(overlap_details) = overlap_count

\* the raw labels of a list of (label, rank) pairs
labels_of(games_ranks) == {games_ranks[i][1] : i \in 1..Len(games_ranks)}

raw_list_of(name) ==
    raw_data[CHOOSE p \in 1..Len(raw_data) : raw_data[p].person = name].games_ranks

no_pair_matches(name) ==
    \A a \in labels_of(new_user_list), b \in labels_of(raw_list_of(name)) :
        ~token_based_match(a, b)

\* C9: a person for whom no (user label, person label) pair matches has
\* score 0 and an empty overlap sequence; a call with the empty query ends
\* with one such result per person, truncated to top_n.
DegenerateInputScoresZero ==
    /\ finished =>
          \A r \in 1..Len(results) :
              no_pair_matches(results[r].person)
                  => results[r].score = 0 /\ results[r].overlap = <<>>
    /\ (pc = "done" /\ new_user_list = <<>>) =>
          /\ Len(results) = Len(raw_data)
          /\ \A r \in 1..Len(results) : results[r].score = 0 /\ results[r].overlap = <<>>
          /\ \A r \in 1..Len(ret) : ret[r].score = 0 /\ ret[r].overlap = <<>>
          /\ top_n >= 0 =>
                Len(ret) = (IF Len(raw_data) < top_n THEN Len(raw_data) ELSE top_n)

\* the empty query answered for a dataset of several persons
WitnessEmptyQuery ==
    /\ pc = "done"
    /\ new_user_list = <<>>
    /\ Len(raw_data) >= 2
    /\ Len(ret) >= 2

\* the rank of the last occurrence of label in a list of (label, rank) pairs
last_rank(games_ranks, label) ==
    LET last == CHOOSE i \in 1..Len(games_ranks) :
                    /\ games_ranks[i][1] = label
                    /\ \A j \in 1..Len(games_ranks) : games_ranks[j][1] = label => j <= i
    IN  games_ranks[last][2]

last_write_wins(games_ranks, d) ==
    /\ Len(d) = Cardinality(labels_of(games_ranks))
    /\ \A label \in labels_of(games_ranks) :
          /\ Cardinality({i \in 1..Len(d) : d[i].game = label}) = 1
          /\ \A i \in 1..Len(d) :
                d[i].game = label
                    => /\ d[i].rank = last_rank(games_ranks, label)
                       /\ d[i].weight = 11 - last_rank(games_ranks, label)

\* C10: a label repeated in a person's list or in the query list has exactly
\* one entry in the preference set, with the rank and weight = 11 - rank of
\* its last occurrence, and the overlap records carry only those ranks.
DuplicateLabelLastWins ==
    /\ pc # "loaded" =>
          \A p \in 1..Len(raw_data) :
              /\ transformed_data[p].person = raw_data[p].person
              /\ last_write_wins(raw_data[p].games_ranks, transformed_data[p].prefs)
    /\ pc \notin {"loaded", "ready"} => last_write_wins(new_user_list, new_user_dict)
    /\ finished =>
          \A r \in 1..Len(results) : \A k \in 1..Len(results[r].overlap) :
              LET rec == results[r].overlap[k]
              IN  /\ rec.your_rank = last_rank(new_user_list, rec.game_user)
                  /\ rec.their_rank = last_rank(raw_list_of(results[r].person), rec.game_other)

\* a query that repeats a label, matched against a person who repeats one
WitnessRepeatedLabel ==
    /\ pc = "done"
    /\ \E i, j \in 1..Len(new_user_list) :
          /\ i < j
          /\ new_user_list[i][1] = new_user_list[j][1]
          /\ new_user_list[i][2] # new_user_list[j][2]
          /\ \E r \in 1..Len(results) :
                /\ Len(raw_list_of(results[r].person)) > Len(prefs_of(results[r].person))
                /\ \E k \in 1..Len(results[r].overlap) :
                      results[r].overlap[k].game_user = new_user_list[i][1]

(***************************************************************************)
(* Properties of token_based_match (MatchSpec)                             *)
(***************************************************************************)
token_set(tokens) == {tokens[i] : i \in 1..Len(tokens)}

\* C4: when both titles have exactly one token the result is the equality
\* of the two tokens; otherwise it is true exactly when one token set is a
\* subset of the other.  Arks/Parks is false, ARKS/arks is true and SETI
\* against its long title is true.
TwoCasePolicy ==
    mpc = "done" =>
        /\ (Len(tokens_a) = 1 /\ Len(tokens_b) = 1)
              => (match_result <=> tokens_a[1] = tokens_b[1])
        /\ ~(Len(tokens_a) = 1 /\ Len(tokens_b) = 1)
              => (match_result <=> \/ token_set(tokens_a) \subseteq token_set(tokens_b)
                                   \/ token_set(tokens_b) \subseteq token_set(tokens_a))
        /\ (title_a = Arks /\ title_b = Parks) => match_result = FALSE
        /\ (title_a = ARKS /\ title_b = arks) => match_result = TRUE
        /\ (title_a = SETI /\ title_b = SETILong) => match_result = TRUE

\* two titles of two tokens each, in different order, that match
WitnessSubsetIgnoresOrder ==
    /\ mpc = "done"
    /\ Len(tokens_a) = 2
    /\ Len(tokens_b) = 2
    /\ tokens_a[1] # tokens_a[2]
    /\ tokens_a[1] = tokens_b[2]
    /\ tokens_a[2] = tokens_b[1]
    /\ match_result = TRUE

\* C5 as stated: a title of exactly one token never matches a title of two
\* or more tokens.
OneTokenNeverMatchesMultiToken ==
    mpc = "done" =>
        /\ (Len(tokens_a) = 1 /\ Len(tokens_b) >= 2) => match_result = FALSE
        /\ (Len(tokens_b) = 1 /\ Len(tokens_a) >= 2) => match_result = FALSE

\* C5 amended: a title of exactly one token matches a title of two or more
\* tokens exactly when its token is one of the other title's tokens, and
\* matches another one-token title only when the two tokens are equal.
OneTokenMatchesMultiTokenIffMember ==
    mpc = "done" =>
        /\ (Len(tokens_a) = 1 /\ Len(tokens_b) >= 2)
              => (match_result <=> tokens_a[1] \in token_set(tokens_b))
        /\ (Len(tokens_b) = 1 /\ Len(tokens_a) >= 2)
              => (match_result <=> tokens_b[1] \in token_set(tokens_a))
        /\ (Len(tokens_a) = 1 /\ Len(tokens_b) = 1 /\ match_result = TRUE)
              => tokens_a[1] = tokens_b[1]

\* the long title against its one-token alias
WitnessAliasMatchesLongTitle ==
    /\ mpc = "done"
    /\ title_a = SETILong
    /\ title_b = SETI
    /\ Len(tokens_a) >= 2
    /\ Len(tokens_b) = 1
    /\ match_result = TRUE

\* C6: a title without tokens matches no title that has a token.
EmptyMatchesOnlyEmpty ==
    mpc = "done" =>
        /\ (Len(tokens_a) = 0 /\ Len(tokens_b) >= 1) => match_result = FALSE
        /\ (Len(tokens_b) = 0 /\ Len(tokens_a) >= 1) => match_result = FALSE

\* C7: token_based_match(a, b) = token_based_match(b, a).
MatchIsSymmetric ==
    mpc = "done" => match_result = token_based_match(title_b, title_a)

\* a title with a repeated token against a shorter title, matching
WitnessRepeatedTokenMatch ==
    /\ mpc = "done"
    /\ Len(tokens_a) = 2
    /\ tokens_a[1] = tokens_a[2]
    /\ Len(tokens_b) = 1
    /\ match_result = TRUE

====
